---- MODULE Spec2Model ----
(***************************************************************************)
(* GPTX token ledger: wrap / balance / unwrap / retire / trade handlers of *)
(* gptx-info-site over the token_wrappers, carbon_offsets and exchanges    *)
(* tables.  Amounts are exact integers (token units); one request runs to  *)
(* completion per step (one session, one transaction per request).         *)
(***************************************************************************)
EXTENDS Integers, Sequences, FiniteSets, TLC

\* ---------------------------------------------------------------- bounds
MaxWrappers == 2
MaxOffsets == 2
MaxTrades == 1
MaxAmount == 2

\* ------------------------------------------------------- request inputs
Users == {"0xA", "0xB"}
ProviderNames == {"openai", "anthropic", "google", "test_provider", "invalid_provider"}
CreditAmounts == {0, 1}
TokenAmounts == (-1)..MaxAmount
ProofLengths == {0, 9, 10}
\* buyer_address of the trade requests: a user who may also hold wrappers
Buyers == {"0xA"}
OrderIds == {1, 2}
TradeAmounts == {-1, 0, 2}

\* --------------------------------------------------- reference data
\* the rows of the ai_providers table at start-up: name -> (is_active, conversion_rate)
AIProvider ==
  [n \in {"openai", "anthropic", "google", "test_provider"} |->
     CASE n = "openai" -> [is_active |-> TRUE, conversion_rate |-> 1]
       [] n = "anthropic" -> [is_active |-> TRUE, conversion_rate |-> 2]
       [] n = "google" -> [is_active |-> FALSE, conversion_rate |-> 1]
       [] OTHER -> [is_active |-> TRUE, conversion_rate |-> 1]]

\* providers known to AIProviderService
ServiceProviders == {"openai", "anthropic", "google"}

MinProofLength == 10
OffsetRateNum == 1
OffsetRateDen == 1000
MockSeller == "0x1234567890123456789012345678901234567890"
PricePerTokenNum == 95
PricePerTokenDen == 100

\* providers whose row an operator may switch off while the service runs
DeactivatableProviders == {"openai"}

VARIABLES wrappers, offsets, trades, resp, switched_off, sessions

vars == <<wrappers, offsets, trades, resp, switched_off, sessions>>

\* ------------------------------------------------------------ helpers
RECURSIVE SumTokens(_, _)
\* sum(w.wrapped_tokens for w in rows), rows a sequence of row ids
SumTokens(ws, ids) ==
  IF ids = <<>> THEN 0
  ELSE ws[Head(ids)].wrapped_tokens + SumTokens(ws, Tail(ids))

\* the orders in which a query without ORDER BY may return the rows S
QueryOrders(S) ==
  {f \in [1..Cardinality(S) -> S] : \A i, j \in 1..Cardinality(S) : f[i] = f[j] => i = j}

\* the ai_providers table now: the start-up rows, with is_active false for the
\* providers switched off since
ai_providers ==
  [n \in DOMAIN AIProvider |->
     [AIProvider[n] EXCEPT !.is_active = @ /\ n \notin switched_off]]

\* slip: the is_active filter left out of the provider query
ProviderLookup_any(name) ==
  IF name \in DOMAIN AIProvider THEN name ELSE "none"

\* filter(AIProvider.name == name, AIProvider.is_active == True).first(), or "none"
ProviderLookup(name) ==
  IF /\ name \in DOMAIN AIProvider
     /\ AIProvider[name].is_active
     /\ name \notin switched_off
  THEN name ELSE "none"

\* AIProviderService.verify_credit_ownership: the "valid" flag and the error text
verify_credit_ownership(provider, credit_amount, proofLen) ==
  IF provider \notin ServiceProviders THEN
    [valid |-> FALSE, error |-> "Provider not supported"]
  ELSE IF proofLen = 0 \/ proofLen < MinProofLength THEN
    [valid |-> FALSE, error |-> "Invalid proof provided"]
  ELSE IF credit_amount <= 0 THEN
    [valid |-> FALSE, error |-> "Credit amount must be positive"]
  ELSE [valid |-> TRUE, error |-> ""]

\* slip: the restorer configured for one provider only
restore_credits_openai_only(provider) == provider = "openai"

\* AIProviderService.restore_credits: the "success" flag
restore_credits(provider) == provider \in ServiceProviders

\* slip: unique=True left off the column, so no stored hash is in the way
WrapperHashes_unconstrained(ws) == {}

\* unique=True on token_wrappers.transaction_hash
WrapperHashes(ws) == {ws[i].transaction_hash : i \in DOMAIN ws}
OffsetHashes(os) == {os[i].transaction_hash : i \in DOMAIN os}
OffsetCertificates(os) == {os[i].offset_certificate_id : i \in DOMAIN os}
TradeHashes(ts) == {ts[i].transaction_hash : i \in DOMAIN ts}

\* the values hash(...) may return for a new transaction, up to renaming: a hash
\* already stored in the table, or one that is not (hashes are only compared)
TxHashes(taken) == taken \cup {Cardinality(taken) + 1}

\* certificate id: date and hash(user_address + str(token_amount)), one day, one process
CertificateId(user, amount) == <<"GCS", user, amount>>

\* the answer to the request being served: status and detail of the HTTP response
\* (a rejection at validation carries only its detail), and for a request that
\* passed validation the request itself (user, provider, amount), the balance the
\* handler computed (available), the amount it reports (issued: tokens_issued of a
\* wrap, credits_restored of an unwrap) and the allocation loop's outcome
NoResp ==
  [op |-> "none", status |-> 0, detail |-> "", user |-> "", provider |-> "",
   amount |-> 0, available |-> 0, remaining |-> 0, consumed |-> 0, issued |-> 0,
   deactivated |-> {}, partial |-> 0, restored |-> TRUE]

Reply(op, status, detail, user, provider, amount) ==
  [NoResp EXCEPT !.op = op, !.status = status, !.detail = detail, !.user = user,
                 !.provider = provider, !.amount = amount]

\* slip: db.merge, which overwrites the latest row of the table
db_merge(table, row) ==
  IF table = <<>> THEN <<row>> ELSE [table EXCEPT ![Len(table)] = row]

\* db.add(row): a new row, inserted after the existing ones
db_add(table, row) == Append(table, row)

\* session.commit(): the session's pending rows become the committed tables
\* (the db.refresh that follows a commit re-reads the new row and changes no table)
Commit(session) == session

\* slip: the pending changes are flushed and never rolled back
Rollback_missing(db, session) == session

\* session.rollback(): the pending changes are discarded
Rollback(db, session) == db

\* no request is being served: the previous request's session is closed
Idle == resp.op = "none"

\* requests that may be in flight at once when several workers share the database
Slots == {1, 2}

\* a worker's request between its query and its commit: the rows its session
\* loaded (loaded: the table as the query saw it, rows: the order it returned);
\* sessions lists the requests of the interleaved workers in the order they began
NoSession ==
  [pc |-> "none", op |-> "", user |-> "", provider |-> "", amount |-> 0,
   rows |-> <<>>, loaded |-> <<>>, available |-> 0, status |-> 0, consumed |-> 0]

Init ==
  /\ wrappers = <<>>
  /\ offsets = <<>>
  /\ trades = <<>>
  /\ resp = NoResp
  /\ switched_off = {}
  /\ sessions = <<>>

DB == [wrappers |-> wrappers, offsets |-> offsets, trades |-> trades]

SetDB(db) ==
  /\ wrappers' = db.wrappers
  /\ offsets' = db.offsets
  /\ trades' = db.trades

\* ------------------------------------------------------------ wrap
TokenWrapper(user, provider, credits, tokens, hash) ==
  [user_address |-> user, provider |-> provider, original_credits |-> credits,
   wrapped_tokens |-> tokens, transaction_hash |-> hash, is_active |-> TRUE]

\* slip: the 1:1 ratio of the transaction details instead of the provider's rate
tokens_to_mint_one_to_one(credit_amount, provider) == credit_amount * 1

tokens_to_mint(credit_amount, provider) == credit_amount * AIProvider[provider].conversion_rate

\* if request.credit_amount <= 0: raise 400
wrap_invalid_amount(credit_amount) == credit_amount <= 0

\* slip: only the empty proof refused
wrap_invalid_proof_empty_only(proofLen) == proofLen = 0

\* if not request.proof or len(request.proof) < 10: raise 400
wrap_invalid_proof(proofLen) == proofLen = 0 \/ proofLen < MinProofLength

wrap_credits(user, provider, credit_amount, proofLen) ==
  LET p == ProviderLookup(provider)
      minted == tokens_to_mint(credit_amount, provider)
      session(hash) == [DB EXCEPT !.wrappers =
                    db_add(wrappers, TokenWrapper(user, provider, credit_amount, minted, hash))]
      R(status, detail) == Reply("wrap", status, detail, user, provider, credit_amount)
      Rejected(status, detail) == Reply("wrap", status, detail, "", "", 0)
  IN
  /\ Len(wrappers) < MaxWrappers
  /\ IF p = "none" THEN
       /\ resp' = [Rejected(400, "not supported") EXCEPT !.provider = provider]
       /\ SetDB(DB)
     ELSE IF wrap_invalid_amount(credit_amount) THEN
       /\ resp' = Rejected(400, "Credit amount must be greater than 0")
       /\ SetDB(DB)
     ELSE IF wrap_invalid_proof(proofLen) THEN
       /\ resp' = Rejected(400, "Valid proof of credit ownership required")
       /\ SetDB(DB)
     ELSE \E fault \in {"none", "verify", "tx", "commit"} :
       IF fault = "verify" THEN
         /\ resp' = Rejected(500, "Failed to wrap credits: verify")
         /\ SetDB(Rollback(DB, DB))
       ELSE IF ~verify_credit_ownership(provider, credit_amount, proofLen).valid THEN
         /\ resp' = [Rejected(400, "Credit verification failed") EXCEPT !.provider = provider]
         /\ SetDB(DB)
       ELSE IF fault = "tx" THEN
         /\ resp' = Rejected(500, "Failed to wrap credits: tx")
         /\ SetDB(Rollback(DB, DB))
       ELSE \E hash \in TxHashes(WrapperHashes(wrappers)) :
         IF hash \in WrapperHashes(wrappers) THEN
           /\ resp' = R(500, "Failed to wrap credits: UNIQUE transaction_hash")
           /\ SetDB(Rollback(DB, session(hash)))
         ELSE IF fault = "commit" THEN
           /\ resp' = R(500, "Failed to wrap credits: commit")
           /\ SetDB(Rollback(DB, session(hash)))
         ELSE
           /\ resp' = [R(200, "Successfully wrapped") EXCEPT !.issued = minted]
           /\ SetDB(Commit(session(hash)))

Wrap ==
  /\ Idle
  /\ \E user \in Users, provider \in ProviderNames, c \in CreditAmounts, pl \in ProofLengths :
       wrap_credits(user, provider, c, pl)
  /\ UNCHANGED <<switched_off, sessions>>

\* ------------------------------------------------------------ balance
\* slip: the is_active filter left out of the balance query
ActiveRows_unfiltered(ws, user) ==
  {i \in DOMAIN ws : ws[i].user_address = user}

\* rows of the query filter(user_address == user, is_active == True)
ActiveRows(ws, user) ==
  {i \in DOMAIN ws : ws[i].user_address = user /\ ws[i].is_active}

get_token_balance(user) ==
  \E rows \in QueryOrders(ActiveRows(wrappers, user)) :
    /\ resp' = [Reply("balance", 200, "", user, "", 0) EXCEPT
                  !.available = SumTokens(wrappers, rows)]
    /\ UNCHANGED <<wrappers, offsets, trades, switched_off, sessions>>

Balance == Idle /\ \E user \in Users : get_token_balance(user)

\* ------------------------------------------------------------ unwrap
\* slip: the provider filter left out of the unwrap query
unwrap_query_any_provider(ws, user, provider) ==
  {i \in DOMAIN ws : ws[i].user_address = user /\ ws[i].is_active}

\* rows of filter(user_address == user, provider == provider, is_active == True)
unwrap_query(ws, user, provider) ==
  {i \in DOMAIN ws : /\ ws[i].user_address = user
                     /\ ws[i].provider = provider
                     /\ ws[i].is_active}

\* slip: the comparison turned around
unwrap_insufficient_reversed(total_wrapped, token_amount) == token_amount < total_wrapped

\* if total_wrapped < request.token_amount: raise 400
unwrap_insufficient(total_wrapped, token_amount) == total_wrapped < token_amount

\* slip: the loop guard left out
unwrap_break_never(remaining_to_unwrap) == FALSE

\* if remaining_to_unwrap <= 0: break
unwrap_break(remaining_to_unwrap) == remaining_to_unwrap <= 0

\* slip: strict comparison, so an exact match takes the partial branch
unwrap_entire_strict(wrapped_tokens, remaining_to_unwrap) == wrapped_tokens < remaining_to_unwrap

\* if wrapper.wrapped_tokens <= remaining_to_unwrap
unwrap_entire(wrapped_tokens, remaining_to_unwrap) == wrapped_tokens <= remaining_to_unwrap

\* the state of the allocation loop: the session's rows, the loop variable, and
\* what was taken so far (consumed, deactivated, partial record the loop's effect)
WalkStart(ws, amount) ==
  [ws |-> ws, remaining |-> amount, consumed |-> 0, deactivated |-> {}, partial |-> 0]

\* slip: the partial branch takes from the row and leaves remaining_to_unwrap as it was
unwrap_row_remaining_kept(st, i) ==
  LET w == st.ws[i] IN
  IF unwrap_entire(w.wrapped_tokens, st.remaining) THEN
    [st EXCEPT !.ws[i].is_active = FALSE,
               !.remaining = @ - w.wrapped_tokens,
               !.consumed = @ + w.wrapped_tokens,
               !.deactivated = @ \cup {i}]
  ELSE
    [st EXCEPT !.ws[i].wrapped_tokens = @ - st.remaining,
               !.consumed = @ + st.remaining,
               !.partial = i]

\* one iteration of the unwrap loop on row i
unwrap_row(st, i) ==
  LET w == st.ws[i] IN
  IF unwrap_entire(w.wrapped_tokens, st.remaining) THEN
    [st EXCEPT !.ws[i].is_active = FALSE,
               !.remaining = @ - w.wrapped_tokens,
               !.consumed = @ + w.wrapped_tokens,
               !.deactivated = @ \cup {i}]
  ELSE
    [st EXCEPT !.ws[i].wrapped_tokens = @ - st.remaining,
               !.remaining = 0,
               !.consumed = @ + st.remaining,
               !.partial = i]

RECURSIVE unwrap_loop(_, _)
unwrap_loop(st, rows) ==
  IF rows = <<>> THEN st
  ELSE IF unwrap_break(st.remaining) THEN st
  ELSE unwrap_loop(unwrap_row(st, Head(rows)), Tail(rows))

\* slip: multiplied by the rate, as the wrap does
credits_to_restore_times_rate(token_amount, provider) ==
  [num |-> token_amount * AIProvider[provider].conversion_rate, den |-> 1]

\* credits_to_restore = request.token_amount / provider_obj.conversion_rate, as a fraction
credits_to_restore(token_amount, provider) ==
  [num |-> token_amount, den |-> AIProvider[provider].conversion_rate]

unwrap_credits(user, provider, token_amount, rows) ==
  LET p == ProviderLookup(provider)
      total_wrapped == SumTokens(wrappers, rows)
      walk == unwrap_loop(WalkStart(wrappers, token_amount), rows)
      session == [DB EXCEPT !.wrappers = walk.ws]
      R(status, detail) ==
        [Reply("unwrap", status, detail, user, provider, token_amount) EXCEPT
           !.available = total_wrapped]
      Walked(status, detail) ==
        [R(status, detail) EXCEPT !.remaining = walk.remaining,
                                  !.consumed = walk.consumed,
                                  !.deactivated = walk.deactivated,
                                  !.partial = walk.partial]
  IN
  IF p = "none" THEN
    /\ resp' = Reply("unwrap", 400, "not supported", "", provider, 0)
    /\ SetDB(DB)
  ELSE IF unwrap_insufficient(total_wrapped, token_amount) THEN
    /\ resp' = R(400, "Insufficient wrapped tokens")
    /\ SetDB(DB)
  ELSE \E fault \in {"none", "tx", "restore", "commit"} :
    IF fault = "tx" THEN
      /\ resp' = R(500, "Failed to unwrap tokens: tx")
      /\ SetDB(Rollback(DB, DB))
    ELSE IF fault = "restore" THEN
      /\ resp' = Walked(500, "Failed to unwrap tokens: restore")
      /\ SetDB(Rollback(DB, session))
    ELSE IF fault = "commit" THEN
      /\ resp' = Walked(500, "Failed to unwrap tokens: commit")
      /\ SetDB(Rollback(DB, session))
    ELSE
      /\ resp' = [Walked(200, "Successfully unwrapped") EXCEPT
                    !.restored = restore_credits(provider),
                    !.issued = credits_to_restore(token_amount, provider)]
      /\ SetDB(Commit(session))

Unwrap ==
  /\ Idle
  /\ \E user \in Users, provider \in ProviderNames, a \in TokenAmounts :
       \E rows \in QueryOrders(unwrap_query(wrappers, user, provider)) :
         unwrap_credits(user, provider, a, rows)
  /\ UNCHANGED <<switched_off, sessions>>

\* ------------------------------------------------------------ retire
\* slip: the is_active filter left out of the retire query
retire_query_unfiltered(ws, user) ==
  {i \in DOMAIN ws : ws[i].user_address = user}

\* slip: the user_address filter left out of the retire query
retire_query_all_users(ws, user) ==
  {i \in DOMAIN ws : ws[i].is_active}

\* rows of filter(user_address == user, is_active.is_(True))
retire_query(ws, user) ==
  {i \in DOMAIN ws : ws[i].user_address = user /\ ws[i].is_active}

\* if total_balance < request.token_amount: raise 400
retire_insufficient(total_balance, token_amount) == total_balance < token_amount

\* if remaining_to_retire <= 0: break
retire_break(remaining_to_retire) == remaining_to_retire <= 0

\* slip: strict comparison, so an exact match takes the partial branch
retire_entire_strict(wrapped_tokens, remaining_to_retire) == wrapped_tokens < remaining_to_retire

\* if wrapper.wrapped_tokens <= remaining_to_retire
retire_entire(wrapped_tokens, remaining_to_retire) == wrapped_tokens <= remaining_to_retire

\* variant: the balance of a fully retired row is zeroed
retire_row_zeroing(st, i) ==
  LET w == st.ws[i] IN
  IF retire_entire(w.wrapped_tokens, st.remaining) THEN
    [st EXCEPT !.remaining = @ - w.wrapped_tokens,
               !.ws[i].is_active = FALSE,
               !.ws[i].wrapped_tokens = 0,
               !.consumed = @ + w.wrapped_tokens,
               !.deactivated = @ \cup {i}]
  ELSE
    [st EXCEPT !.ws[i].wrapped_tokens = @ - st.remaining,
               !.remaining = 0,
               !.consumed = @ + st.remaining,
               !.partial = i]

\* one iteration of the retire loop on row i
retire_row(st, i) ==
  LET w == st.ws[i] IN
  IF retire_entire(w.wrapped_tokens, st.remaining) THEN
    [st EXCEPT !.remaining = @ - w.wrapped_tokens,
               !.ws[i].is_active = FALSE,
               !.consumed = @ + w.wrapped_tokens,
               !.deactivated = @ \cup {i}]
  ELSE
    [st EXCEPT !.ws[i].wrapped_tokens = @ - st.remaining,
               !.remaining = 0,
               !.consumed = @ + st.remaining,
               !.partial = i]

RECURSIVE retire_loop(_, _)
retire_loop(st, rows) ==
  IF rows = <<>> THEN st
  ELSE IF retire_break(st.remaining) THEN st
  ELSE retire_loop(retire_row(st, Head(rows)), Tail(rows))

\* slip: a rate of 0.01
carbon_credits_purchased_wrong_rate(token_amount) ==
  [num |-> token_amount * OffsetRateNum, den |-> 100]

\* request.token_amount * 0.001, as a fraction
carbon_credits_purchased(token_amount) ==
  [num |-> token_amount * OffsetRateNum, den |-> OffsetRateDen]

CarbonOffset(user, token_amount, hash) ==
  [user_address |-> user, tokens_retired |-> token_amount,
   carbon_credits_purchased |-> carbon_credits_purchased(token_amount),
   offset_provider |-> "GreenCarbon Solutions",
   offset_certificate_id |-> CertificateId(user, token_amount),
   transaction_hash |-> hash]

\* slip: a retirement of zero tokens let through
retire_invalid_amount_strict(token_amount) == token_amount < 0

\* if request.token_amount <= 0: raise 400
retire_invalid_amount(token_amount) == token_amount <= 0

retire_tokens_for_offset(user, token_amount, rows) ==
  LET total_balance == SumTokens(wrappers, rows)
      walk == retire_loop(WalkStart(wrappers, token_amount), rows)
      session(hash) == [DB EXCEPT !.offsets = db_add(offsets, CarbonOffset(user, token_amount, hash)),
                            !.wrappers = walk.ws]
      R(status, detail) ==
        [Reply("retire", status, detail, user, "", token_amount) EXCEPT
           !.available = total_balance]
      Walked(status, detail) ==
        [R(status, detail) EXCEPT !.remaining = walk.remaining,
                                  !.consumed = walk.consumed,
                                  !.deactivated = walk.deactivated,
                                  !.partial = walk.partial]
  IN
  /\ Len(offsets) < MaxOffsets
  /\ IF retire_invalid_amount(token_amount) THEN
       /\ resp' = Reply("retire", 400, "Token amount must be greater than 0", "", "", 0)
       /\ SetDB(DB)
     ELSE IF retire_insufficient(total_balance, token_amount) THEN
       /\ resp' = R(400, "Insufficient token balance")
       /\ SetDB(DB)
     ELSE \E fault \in {"none", "tx", "commit"} :
       IF fault = "tx" THEN
         /\ resp' = R(500, "Failed to retire tokens and purchase offset: tx")
         /\ SetDB(Rollback(DB, DB))
       ELSE \E hash \in TxHashes(OffsetHashes(offsets)) :
         IF CertificateId(user, token_amount) \in OffsetCertificates(offsets) THEN
           /\ resp' = Walked(500, "Failed to retire tokens and purchase offset: UNIQUE offset_certificate_id")
           /\ SetDB(Rollback(DB, session(hash)))
         ELSE IF hash \in OffsetHashes(offsets) THEN
           /\ resp' = Walked(500, "Failed to retire tokens and purchase offset: UNIQUE transaction_hash")
           /\ SetDB(Rollback(DB, session(hash)))
         ELSE IF fault = "commit" THEN
           /\ resp' = Walked(500, "Failed to retire tokens and purchase offset: commit")
           /\ SetDB(Rollback(DB, session(hash)))
         ELSE
           /\ resp' = Walked(200, "Successfully retired")
           /\ SetDB(Commit(session(hash)))

Retire ==
  /\ Idle
  /\ \E user \in Users, a \in TokenAmounts :
       \E rows \in QueryOrders(retire_query(wrappers, user)) :
         retire_tokens_for_offset(user, a, rows)
  /\ UNCHANGED <<switched_off, sessions>>

\* ------------------------------------------------------------ certificate lookup
\* certificate ids asked for: those a retire can issue, and one no retire issues
CertificateIds ==
  {CertificateId(user, a) : user \in Users, a \in 1..MaxAmount}
    \cup {CertificateId("nobody", 0)}

\* offset.metadata on a row loaded from carbon_offsets. The table has no column of
\* that name (its text column is additional_data, and the metadata= keyword of the
\* retire handler set a plain attribute on the object it built, stored nowhere), so
\* the attribute read is the declarative base's MetaData object, not a string.
offset_metadata(offset) == [type |-> "MetaData"]

\* if offset.metadata: any object without __bool__ or __len__ is true
truthy(value) == value.type # "NoneType"

\* json.loads raises TypeError for anything but str, bytes or bytearray
json_loads_raises(value) == value.type \notin {"str", "bytes", "bytearray"}

\* filter(offset_certificate_id == certificate_id).first(): the matching rows
certificate_query(os, certificate_id) ==
  {i \in DOMAIN os : os[i].offset_certificate_id = certificate_id}

get_offset_certificate(certificate_id) ==
  LET found == certificate_query(offsets, certificate_id)
      offset == offsets[CHOOSE i \in found : \A j \in found : i <= j]
      R(status, detail) ==
        [Reply("certificate", status, detail, offset.user_address, "", offset.tokens_retired)
           EXCEPT !.issued = offset.carbon_credits_purchased]
  IN
  /\ IF found = {} THEN
       resp' = Reply("certificate", 404, "Certificate not found", "", "", 0)
     ELSE IF truthy(offset_metadata(offset)) /\ json_loads_raises(offset_metadata(offset)) THEN
       resp' = R(500, "Internal Server Error")
     ELSE
       resp' = R(200, "verified")
  /\ UNCHANGED <<wrappers, offsets, trades, switched_off, sessions>>

Certificate == Idle /\ \E certificate_id \in CertificateIds : get_offset_certificate(certificate_id)

\* ------------------------------------------------------------ trade
\* slip: the unit price stored as the total
total_price_of_one(token_amount) == [num |-> PricePerTokenNum, den |-> PricePerTokenDen]

\* total_price = request.token_amount * price_per_token, as a fraction
total_price(token_amount) ==
  [num |-> token_amount * PricePerTokenNum, den |-> PricePerTokenDen]

Exchange(buyer, token_amount, hash) ==
  [seller_address |-> MockSeller, buyer_address |-> buyer, token_amount |-> token_amount,
   price_per_token |-> [num |-> PricePerTokenNum, den |-> PricePerTokenDen],
   total_price |-> total_price(token_amount),
   transaction_hash |-> hash, status |-> "completed"]

\* slip: a trade of zero tokens let through
trade_invalid_amount_strict(token_amount) == token_amount < 0

\* if request.token_amount <= 0: raise 400
trade_invalid_amount(token_amount) == token_amount <= 0

execute_trade(buyer, order_id, token_amount) ==
  LET session(hash) == [DB EXCEPT !.trades = db_add(trades, Exchange(buyer, token_amount, hash))]
      R(status, detail) == Reply("trade", status, detail, buyer, "", token_amount)
  IN
  /\ Len(trades) < MaxTrades
  /\ IF trade_invalid_amount(token_amount) THEN
       /\ resp' = Reply("trade", 400, "Token amount must be greater than 0", "", "", 0)
       /\ SetDB(DB)
     ELSE \E hash \in TxHashes(TradeHashes(trades)), fault \in {"none", "commit"} :
       IF hash \in TradeHashes(trades) THEN
         /\ resp' = R(500, "Failed to execute trade: UNIQUE transaction_hash")
         /\ SetDB(Rollback(DB, session(hash)))
       ELSE IF fault = "commit" THEN
         /\ resp' = R(500, "Failed to execute trade: commit")
         /\ SetDB(Rollback(DB, session(hash)))
       ELSE
         /\ resp' = R(200, "Successfully traded")
         /\ SetDB(Commit(session(hash)))

Trade ==
  /\ Idle
  /\ \E buyer \in Buyers, order_id \in OrderIds, a \in TradeAmounts :
       execute_trade(buyer, order_id, a)
  /\ UNCHANGED <<switched_off, sessions>>

\* ------------------------------------------------------------ end of request
\* the response is sent and get_db closes the request's session
get_db_close ==
  /\ ~Idle
  /\ resp' = NoResp
  /\ UNCHANGED <<wrappers, offsets, trades, switched_off, sessions>>

\* ------------------------------------------------------------ provider table
\* the Provider rows are configuration: no endpoint writes them, an operator may
\* switch a provider off between two requests
provider_deactivated ==
  /\ Idle
  /\ \E name \in DeactivatableProviders :
       /\ ai_providers[name].is_active
       /\ switched_off' = switched_off \cup {name}
  /\ UNCHANGED <<wrappers, offsets, trades, resp, sessions>>

\* ------------------------------------------------------------ credit verifier
\* credit amounts handed to the verifier when it is called on its own
VerifierCredits == (-1)..MaxAmount

\* a direct call of AIProviderService.verify_credit_ownership and what it returned
Verify ==
  /\ Idle
  /\ \E provider \in ProviderNames, c \in VerifierCredits, pl \in ProofLengths :
       resp' = [op |-> "verify", provider |-> provider, credit_amount |-> c,
                proofLen |-> pl, result |-> verify_credit_ownership(provider, c, pl)]
  /\ UNCHANGED <<wrappers, offsets, trades, switched_off, sessions>>

Next == Wrap \/ Balance \/ Unwrap \/ Retire \/ Trade \/ Certificate \/ get_db_close

Spec == Init /\ [][Next]_vars

\* the two endpoints that look the provider up, with the operator's step
ProviderNext == Wrap \/ Unwrap \/ get_db_close \/ provider_deactivated

ProviderSpec == Init /\ [][ProviderNext]_vars

\* ------------------------------------------------------------ interleaved requests
\* Several workers serve requests on the one database. An unwrap or retire is two
\* steps of its worker: the query and the balance check on the rows it loaded, then
\* the loop over those loaded rows, the flush and the commit. Nothing in the handler
\* holds the rows in between. Collaborator failures are left to Spec.
ConcurrentProviders == {"openai", "anthropic"}
ConcurrentAmounts == 1..MaxAmount

\* slip: the flush writes the change relative to the stored value
flush_tokens_relative(stored, loaded, new) == stored - (loaded - new)

\* wrapper.wrapped_tokens -= remaining: computed on the loaded value, and the UPDATE
\* the flush emits carries the result; an attribute left alone is not written
flush_tokens(stored, loaded, new) == IF new = loaded THEN stored ELSE new

\* wrapper.is_active = False, written by the flush when the loop set it
flush_active(stored, loaded, new) == IF new = loaded THEN stored ELSE new

\* the table after the session's changed attributes are written, row by row (by id)
flush(stored, loaded, changed) ==
  [i \in DOMAIN stored |->
     IF i \in DOMAIN loaded
     THEN [stored[i] EXCEPT
             !.wrapped_tokens = flush_tokens(@, loaded[i].wrapped_tokens, changed[i].wrapped_tokens),
             !.is_active = flush_active(@, loaded[i].is_active, changed[i].is_active)]
     ELSE stored[i]]

\* first step: provider lookup (unwrap), amount check (retire), query, balance check
allocation_read(s, op, user, provider, amount, rows) ==
  LET total == SumTokens(wrappers, rows)
      refused == [NoSession EXCEPT !.pc = "done", !.op = op, !.status = 400]
  IN
  /\ s = Len(sessions) + 1
  /\ IF op = "unwrap" /\ ProviderLookup(provider) = "none" THEN
       sessions' = Append(sessions, refused)
     ELSE IF op = "retire" /\ retire_invalid_amount(amount) THEN
       sessions' = Append(sessions, refused)
     ELSE IF (op = "unwrap" /\ unwrap_insufficient(total, amount))
             \/ (op = "retire" /\ retire_insufficient(total, amount)) THEN
       sessions' = Append(sessions, refused)
     ELSE
       sessions' = Append(sessions,
                      [NoSession EXCEPT !.pc = "checked", !.op = op, !.user = user,
                                        !.provider = provider, !.amount = amount,
                                        !.rows = rows, !.loaded = wrappers,
                                        !.available = total])
  /\ UNCHANGED <<wrappers, offsets, trades, resp, switched_off>>

ConcurrentRead ==
  \E s \in Slots, user \in Users, a \in ConcurrentAmounts :
    \/ \E provider \in ConcurrentProviders :
         \E rows \in QueryOrders(unwrap_query(wrappers, user, provider)) :
           allocation_read(s, "unwrap", user, provider, a, rows)
    \/ \E rows \in QueryOrders(retire_query(wrappers, user)) :
         allocation_read(s, "retire", user, "", a, rows)

\* second step: the loop on the loaded rows, the flush and the commit
allocation_commit(s) ==
  LET q == sessions[s]
      walk == IF q.op = "unwrap"
              THEN unwrap_loop(WalkStart(q.loaded, q.amount), q.rows)
              ELSE retire_loop(WalkStart(q.loaded, q.amount), q.rows)
      flushed == flush(wrappers, q.loaded, walk.ws)
      done(status) == [q EXCEPT !.pc = "done", !.status = status, !.rows = <<>>,
                                !.loaded = <<>>, !.consumed = walk.consumed]
  IN
  /\ s \in DOMAIN sessions
  /\ q.pc = "checked"
  /\ IF q.op = "unwrap" THEN
       /\ sessions' = [sessions EXCEPT ![s] = done(200)]
       /\ wrappers' = Commit(flushed)
       /\ UNCHANGED offsets
     ELSE
       /\ Len(offsets) < MaxOffsets
       /\ \E hash \in TxHashes(OffsetHashes(offsets)) :
            IF \/ CertificateId(q.user, q.amount) \in OffsetCertificates(offsets)
               \/ hash \in OffsetHashes(offsets)
            THEN
              /\ sessions' = [sessions EXCEPT ![s] = done(500)]
              /\ wrappers' = Rollback(wrappers, flushed)
              /\ UNCHANGED offsets
            ELSE
              /\ sessions' = [sessions EXCEPT ![s] = done(200)]
              /\ wrappers' = Commit(flushed)
              /\ offsets' = db_add(offsets, CarbonOffset(q.user, q.amount, hash))
  /\ UNCHANGED <<trades, resp, switched_off>>

ConcurrentCommit == \E s \in Slots : allocation_commit(s)

ConcurrentNext == Wrap \/ get_db_close \/ ConcurrentRead \/ ConcurrentCommit

ConcurrentSpec == Init /\ [][ConcurrentNext]_vars

\* ------------------------------------------------------------ round trip
\* the request a client sends on a successful wrap to undo it: an unwrap, for the
\* same user and provider, of all the tokens the wrap issued
RoundTrip ==
  /\ resp.op = "wrap"
  /\ resp.status = 200
  /\ \E rows \in QueryOrders(unwrap_query(wrappers, resp.user, resp.provider)) :
       unwrap_credits(resp.user, resp.provider, resp.issued, rows)
  /\ UNCHANGED <<switched_off, sessions>>

RoundTripNext == Wrap \/ Unwrap \/ RoundTrip \/ get_db_close

RoundTripSpec == Init /\ [][RoundTripNext]_vars

\* the wrap endpoint and the verifier it relies on, the verifier also called directly
VerifierNext == Wrap \/ Verify \/ get_db_close

VerifierSpec == Init /\ [][VerifierNext]_vars

\* ================================================================ properties
\* reference definitions of the balances, by row index rather than by query
RECURSIVE BalanceUpTo(_, _, _, _)
BalanceUpTo(ws, n, user, provider) ==
  IF n = 0 THEN 0
  ELSE BalanceUpTo(ws, n - 1, user, provider)
       + (IF /\ ws[n].user_address = user
             /\ ws[n].is_active
             /\ (provider = "" \/ ws[n].provider = provider)
          THEN ws[n].wrapped_tokens ELSE 0)

\* totalBalance(user), and the balance scoped to one provider ("" = all providers)
ScopedBalance(ws, user, provider) == BalanceUpTo(ws, Len(ws), user, provider)
TotalBalance(ws, user) == ScopedBalance(ws, user, "")

Allocating == resp.op \in {"unwrap", "retire"}
Allocating1 == resp'.op \in {"unwrap", "retire"}
InsufficientDetail == {"Insufficient wrapped tokens", "Insufficient token balance"}
\* a request stopped by a collaborator that raised or by a transaction hash already taken
EnvironmentFailure ==
  resp.detail \in {"Failed to unwrap tokens: tx", "Failed to unwrap tokens: restore",
                   "Failed to unwrap tokens: commit",
                   "Failed to retire tokens and purchase offset: tx",
                   "Failed to retire tokens and purchase offset: commit",
                   "Failed to retire tokens and purchase offset: UNIQUE transaction_hash"}

\* C1 (as claimed): an unwrap or retire with amount A > 0 and scoped active balance
\* B >= A, none of whose collaborators raised, succeeds with remaining = 0, consumed
\* amounts summing to A, and scoped balance B - A afterwards.
C1_AllocationSucceeds ==
  (/\ Allocating
   /\ resp.amount > 0
   /\ resp.available >= resp.amount
   /\ ~EnvironmentFailure)
  => /\ resp.status = 200
     /\ resp.remaining = 0
     /\ resp.consumed = resp.amount
     /\ ScopedBalance(wrappers, resp.user, resp.provider) = resp.available - resp.amount

\* the part of C1 that holds: whenever such a request does succeed, the loop ended
\* with remaining = 0, consumed exactly A, and left B - A.
AllocationExactOnSuccess ==
  (Allocating /\ resp.status = 200 /\ resp.amount > 0)
  => /\ resp.remaining = 0
     /\ resp.consumed = resp.amount
     /\ ScopedBalance(wrappers, resp.user, resp.provider) = resp.available - resp.amount

\* C2: an unwrap (for a supported provider) or retire asking for more than the scoped
\* active balance B is answered 400 InsufficientBalance with available = B, and no
\* Wrapper row changes and no CarbonOffset row is created.
C2_InsufficientBalance ==
  [][(/\ Allocating1
      /\ resp'.detail # "not supported"
      /\ resp'.amount > ScopedBalance(wrappers, resp'.user, resp'.provider))
     => /\ resp'.status = 400
        /\ resp'.detail \in InsufficientDetail
        /\ resp'.available = ScopedBalance(wrappers, resp'.user, resp'.provider)
        /\ wrappers' = wrappers
        /\ offsets' = offsets]_vars

C2_Witness ==
  /\ Allocating
  /\ resp.status = 400
  /\ resp.detail \in InsufficientDetail
  /\ resp.available > 0
  /\ resp.amount > resp.available

\* C3: a successful wrap of c credits at rate r appends exactly one active row for
\* (user, provider) with original_credits = c and wrapped_tokens = c * r, reports
\* tokens_issued = c * r, raises the user's balance by c * r and changes no other row.
C3_WrapMints ==
  [][(resp'.op = "wrap" /\ resp'.status = 200)
     => LET c == resp'.amount
            r == AIProvider[resp'.provider].conversion_rate
            new == wrappers'[Len(wrappers')]
        IN /\ Len(wrappers') = Len(wrappers) + 1
           /\ SubSeq(wrappers', 1, Len(wrappers)) = wrappers
           /\ new.user_address = resp'.user
           /\ new.provider = resp'.provider
           /\ new.is_active
           /\ new.original_credits = c
           /\ new.wrapped_tokens = c * r
           /\ resp'.issued = c * r
           /\ TotalBalance(wrappers', resp'.user) = TotalBalance(wrappers, resp'.user) + c * r]_vars

C3_Witness ==
  /\ resp.op = "wrap"
  /\ resp.status = 200
  /\ resp.provider = "anthropic"
  /\ Len(wrappers) = 2

\* C4: the balance query answers 200 with the sum of wrapped_tokens over the user's
\* active rows only (0 when there are none) and changes no row.
C4_BalanceQuery ==
  [][(resp'.op = "balance")
     => /\ resp'.status = 200
        /\ resp'.available = TotalBalance(wrappers, resp'.user)
        /\ (\A i \in DOMAIN wrappers :
              ~(wrappers[i].user_address = resp'.user /\ wrappers[i].is_active))
           => resp'.available = 0
        /\ UNCHANGED <<wrappers, offsets, trades>>]_vars

C4_Witness ==
  /\ resp.op = "balance"
  /\ resp.available = 0
  /\ \E i, k \in DOMAIN wrappers :
       /\ wrappers[i].user_address = resp.user
       /\ ~wrappers[i].is_active
       /\ wrappers[i].wrapped_tokens > 0
       /\ wrappers[k].user_address # resp.user
       /\ wrappers[k].is_active

C6_OffsetWithDebits ==
  [][/\ (resp'.op = "retire" /\ resp'.status = 200)
        => LET o == offsets'[Len(offsets')] IN
           /\ Len(offsets') = Len(offsets) + 1
           /\ SubSeq(offsets', 1, Len(offsets)) = offsets
           /\ o.user_address = resp'.user
           /\ o.tokens_retired = resp'.amount
           /\ o.carbon_credits_purchased.num * 1000 = resp'.amount * o.carbon_credits_purchased.den
           /\ TotalBalance(wrappers', resp'.user) = TotalBalance(wrappers, resp'.user) - resp'.amount
     /\ (offsets' # offsets) <=> (resp'.op = "retire" /\ wrappers' # wrappers)]_vars

C6_Witness ==
  /\ resp.op = "retire"
  /\ resp.status = 200
  /\ Len(offsets) = 2

\* C7 (as claimed): every inactive Wrapper row has wrapped_tokens = 0.
C7_InactiveIsZero ==
  \A i \in DOMAIN wrappers : ~wrappers[i].is_active => wrappers[i].wrapped_tokens = 0

\* C7 (amended): deactivation leaves wrapped_tokens at the positive value the row held
\* when it was fully consumed; an inactive row counts as 0 only through the is_active
\* filter of the balance.
C7_InactiveKeepsValue ==
  [][\A i \in DOMAIN wrappers :
       /\ i \in DOMAIN wrappers'
       /\ ~wrappers'[i].is_active
            => /\ wrappers'[i].wrapped_tokens > 0
               /\ wrappers'[i].wrapped_tokens = wrappers[i].wrapped_tokens
               /\ TotalBalance(wrappers', wrappers'[i].user_address)
                    = TotalBalance([wrappers' EXCEPT ![i].wrapped_tokens = 0],
                                   wrappers'[i].user_address)]_vars

C7_Witness ==
  /\ resp.op = "retire"
  /\ resp.status = 200
  /\ \E i \in resp.deactivated : ~wrappers[i].is_active /\ wrappers[i].wrapped_tokens > 0

\* C8: every row's wrapped_tokens is >= 0 and never increases from one state to the
\* next; only a committed unwrap or retire changes it.
C8_NonNegativeNonIncreasing ==
  [][\A i \in DOMAIN wrappers :
       /\ wrappers[i].wrapped_tokens >= 0
       /\ i \in DOMAIN wrappers'
       /\ wrappers'[i].wrapped_tokens >= 0
       /\ wrappers'[i].wrapped_tokens <= wrappers[i].wrapped_tokens
       /\ wrappers'[i].wrapped_tokens # wrappers[i].wrapped_tokens
            => (Allocating1 /\ resp'.status = 200)]_vars

C8_Witness ==
  /\ Len(trades) > 0
  /\ \E i \in DOMAIN wrappers :
       /\ wrappers[i].is_active
       /\ wrappers[i].wrapped_tokens
            < wrappers[i].original_credits * AIProvider[wrappers[i].provider].conversion_rate

\* C9: a row consumed down to exactly its balance is deactivated, so no active row
\* ever holds wrapped_tokens = 0, and the rows an unwrap or retire consumed whole
\* are inactive and add nothing to the balance.
C9_ExactConsumptionDeactivates ==
  /\ \A i \in DOMAIN wrappers : wrappers[i].is_active => wrappers[i].wrapped_tokens > 0
  /\ (Allocating /\ resp.status = 200)
       => /\ \A i \in resp.deactivated : ~wrappers[i].is_active
          /\ ScopedBalance(wrappers, resp.user, resp.provider)
               = resp.available - resp.consumed

C9_Witness ==
  /\ Allocating
  /\ resp.status = 200
  /\ resp.amount > 0
  /\ resp.partial = 0
  /\ resp.deactivated # {}

\* C10: an inactive row is never deleted, reactivated or changed in any field.
C10_DeactivationTerminal ==
  [][\A i \in DOMAIN wrappers :
       ~wrappers[i].is_active => (i \in DOMAIN wrappers' /\ wrappers'[i] = wrappers[i])]_vars

C10_Witness ==
  /\ resp.op \in {"wrap", "unwrap", "retire", "trade"}
  /\ resp.status = 200
  /\ \E i \in DOMAIN wrappers : ~wrappers[i].is_active /\ i \notin resp.deactivated

\* C11 (as claimed): an unwrap with token_amount <= 0 that no collaborator failure
\* stopped is answered 400, so no unwrap of a non-positive amount succeeds.
C11_NonPositiveUnwrapRejected ==
  (resp.op = "unwrap" /\ resp.amount <= 0 /\ ~EnvironmentFailure) => resp.status = 400

\* C12: a retire with token_amount <= 0 and a wrap with credit_amount <= 0 are each
\* answered 400 by the handler's own checks (never by way of a collaborator, whose
\* failure would answer 500), and leave the wrappers and offsets tables unchanged.
C12_NonPositiveAmountRejected ==
  [][/\ (Idle /\ resp'.op = "wrap")
          => \A user \in Users, provider \in ProviderNames, pl \in ProofLengths :
               \A c \in {x \in CreditAmounts : x <= 0} :
                 wrap_credits(user, provider, c, pl)
                   => /\ resp'.status = 400
                      /\ resp'.detail \in {"not supported", "Credit amount must be greater than 0"}
                      /\ wrappers' = wrappers
                      /\ offsets' = offsets
     /\ (Idle /\ resp'.op = "retire")
          => \A user \in Users, a \in {x \in TokenAmounts : x <= 0} :
               \A rows \in QueryOrders(retire_query(wrappers, user)) :
                 retire_tokens_for_offset(user, a, rows)
                   => /\ resp'.status = 400
                      /\ resp'.detail = "Token amount must be greater than 0"
                      /\ wrappers' = wrappers
                      /\ offsets' = offsets]_vars

C12_Witness ==
  /\ resp.op = "wrap"
  /\ resp.status = 400
  /\ resp.detail = "Credit amount must be greater than 0"
  /\ \E i \in DOMAIN wrappers : wrappers[i].is_active
  /\ Len(offsets) > 0

\* C13: a wrap or unwrap naming a provider that has no row in the Provider table, or
\* whose row has is_active = false, is answered 400 'not supported' and changes no
\* row of any table, whatever rows the user holds for that provider.
Unsupported(name) == name \notin DOMAIN ai_providers \/ ~ai_providers[name].is_active

C13_ProviderNotSupported ==
  [][(Idle /\ resp'.op \in {"wrap", "unwrap"})
       => \A user \in Users, provider \in {n \in ProviderNames : Unsupported(n)} :
            /\ \A c \in CreditAmounts, pl \in ProofLengths :
                 wrap_credits(user, provider, c, pl)
                   => /\ resp'.status = 400
                      /\ resp'.detail = "not supported"
                      /\ <<wrappers', offsets', trades'>> = <<wrappers, offsets, trades>>
            /\ \A a \in TokenAmounts :
                 \A rows \in QueryOrders(unwrap_query(wrappers, user, provider)) :
                   unwrap_credits(user, provider, a, rows)
                     => /\ resp'.status = 400
                        /\ resp'.detail = "not supported"
                        /\ <<wrappers', offsets', trades'>> = <<wrappers, offsets, trades>>]_vars

\* an unwrap refused for a provider of which every user holds an active row
C13_Witness ==
  /\ resp.op = "unwrap"
  /\ resp.status = 400
  /\ resp.detail = "not supported"
  /\ \A user \in Users :
       \E i \in DOMAIN wrappers :
         /\ wrappers[i].user_address = user
         /\ wrappers[i].provider = resp.provider
         /\ wrappers[i].is_active

\* C14: a wrap whose proof is empty or shorter than 10 characters is answered 400 by
\* the handler's own checks and creates no Wrapper row; the credit verifier, called
\* with such a proof, returns valid = false, with the error 'Invalid proof provided'
\* for every provider the verifier knows.
C14_ShortProofRejected ==
  [][/\ (Idle /\ resp'.op = "wrap")
          => \A user \in Users, provider \in ProviderNames, c \in CreditAmounts :
               \A pl \in {x \in ProofLengths : x < 10} :
                 wrap_credits(user, provider, c, pl)
                   => /\ resp'.status = 400
                      /\ resp'.detail \in {"not supported", "Credit amount must be greater than 0",
                                           "Valid proof of credit ownership required"}
                      /\ wrappers' = wrappers
     /\ (resp'.op = "verify" /\ resp'.proofLen < 10)
          => /\ ~resp'.result.valid
             /\ resp'.provider \in {"openai", "anthropic", "google"}
                  => resp'.result.error = "Invalid proof provided"]_vars

C14_Witness ==
  /\ resp.op = "wrap"
  /\ resp.status = 400
  /\ resp.detail = "Valid proof of credit ownership required"
  /\ Len(wrappers) > 0

\* C15: a successful trade of token_amount > 0 appends exactly one Trade row with
\* status 'completed', the mock seller, price 0.95 and total_price = token_amount *
\* 0.95, whatever order_id was given; it changes no Wrapper and no CarbonOffset row,
\* so the balance of the buyer, the seller and every other user stays the same.
C15_TradeAppendsOneRow ==
  [][/\ (resp'.op = "trade" /\ resp'.status = 200)
          => LET t == trades'[Len(trades')] IN
             /\ resp'.amount > 0
             /\ Len(trades') = Len(trades) + 1
             /\ SubSeq(trades', 1, Len(trades)) = trades
             /\ t.status = "completed"
             /\ t.seller_address = "0x1234567890123456789012345678901234567890"
             /\ t.buyer_address = resp'.user
             /\ t.token_amount = resp'.amount
             /\ t.price_per_token.num * 100 = 95 * t.price_per_token.den
             /\ t.total_price.num * 100 = resp'.amount * 95 * t.total_price.den
             /\ wrappers' = wrappers
             /\ offsets' = offsets
             /\ \A u \in Users \cup {t.seller_address, t.buyer_address} :
                  TotalBalance(wrappers', u) = TotalBalance(wrappers, u)
     /\ (Idle /\ resp'.op = "trade")
          => \A buyer \in Buyers, a \in TradeAmounts, o1, o2 \in OrderIds :
               execute_trade(buyer, o1, a) <=> execute_trade(buyer, o2, a)]_vars

C15_Witness ==
  /\ resp.op = "trade"
  /\ resp.status = 200
  /\ Len(trades) > 0
  /\ TotalBalance(wrappers, resp.user) > 0

\* C16: a trade with token_amount <= 0 is answered 400 'Token amount must be greater
\* than 0' and inserts no Trade row.
C16_NonPositiveTradeRejected ==
  [][(Idle /\ resp'.op = "trade")
       => \A buyer \in Buyers, order_id \in OrderIds :
            \A a \in {x \in TradeAmounts : x <= 0} :
              execute_trade(buyer, order_id, a)
                => /\ resp'.status = 400
                   /\ resp'.detail = "Token amount must be greater than 0"
                   /\ trades' = trades
                   /\ wrappers' = wrappers
                   /\ offsets' = offsets]_vars

C16_Witness ==
  /\ resp.op = "trade"
  /\ resp.status = 400
  /\ resp.detail = "Token amount must be greater than 0"
  /\ trades = <<>>
  /\ Len(wrappers) > 0

\* tokens ever minted for a user: no row is ever deleted
RECURSIVE MintedUpTo(_, _, _)
MintedUpTo(ws, n, user) ==
  IF n = 0 THEN 0
  ELSE MintedUpTo(ws, n - 1, user)
       + (IF ws[n].user_address = user
          THEN ws[n].original_credits * AIProvider[ws[n].provider].conversion_rate ELSE 0)

\* C17: when requests interleave, each unwrap or retire checks its amount against
\* the balance of the rows it read itself; its commit is never refused on account
\* of another request's commit (an unwrap always commits) and writes row values
\* computed from the rows it loaded, not from the stored ones. So two requests that
\* both read before either commits both commit, and more can be spent than the
\* user ever held (C17_OverCommit).
C17_NoRowLock ==
  [][\A s \in DOMAIN sessions :
       (sessions[s].pc = "checked" /\ sessions'[s].pc = "done")
         => LET q == sessions[s]
                r == sessions'[s]
            IN /\ q.amount > 0
               /\ q.amount <= q.available
               /\ q.available = ScopedBalance(q.loaded, q.user, q.provider)
               /\ q.op = "unwrap" => r.status = 200
               /\ r.status = 200
                    => /\ r.consumed = q.amount
                       /\ \A i \in DOMAIN wrappers :
                            wrappers'[i].wrapped_tokens # wrappers[i].wrapped_tokens
                              => /\ i \in DOMAIN q.loaded
                                 /\ wrappers'[i].wrapped_tokens >= 1
                                 /\ wrappers'[i].wrapped_tokens < q.loaded[i].wrapped_tokens
                                 /\ wrappers'[i].wrapped_tokens >= q.loaded[i].wrapped_tokens - q.amount
               /\ r.status # 200 => (wrappers' = wrappers /\ offsets' = offsets)]_vars

\* both requests of one user answered 200, having spent more than was ever minted
C17_OverCommit ==
  \E user \in Users :
    /\ DOMAIN sessions = Slots
    /\ \A s \in Slots : /\ sessions[s].pc = "done"
                         /\ sessions[s].status = 200
                         /\ sessions[s].user = user
    /\ sessions[1].consumed + sessions[2].consumed > MintedUpTo(wrappers, Len(wrappers), user)

\* C18: the Trade and CarbonOffset tables are append-only: in every step each row of
\* either table stays where it was with all its fields unchanged, and the tables
\* only grow, by the rows a trade or a retire adds at the end.
C18_AppendOnly ==
  [][/\ Len(trades') >= Len(trades)
     /\ SubSeq(trades', 1, Len(trades)) = trades
     /\ Len(offsets') >= Len(offsets)
     /\ SubSeq(offsets', 1, Len(offsets)) = offsets
     /\ trades' # trades => resp'.op = "trade"
     /\ offsets' # offsets => resp'.op = "retire"]_vars

C18_Witness ==
  /\ Len(offsets) = 2
  /\ Len(trades) = 1
  /\ resp.op = "retire"
  /\ resp.status = 200

\* no two rows of the table carry the same value in the column
UniqueColumn(table, column) ==
  \A i, j \in DOMAIN table : table[i][column] = table[j][column] => i = j

UniqueViolationDetail ==
  {"Failed to wrap credits: UNIQUE transaction_hash",
   "Failed to retire tokens and purchase offset: UNIQUE transaction_hash",
   "Failed to retire tokens and purchase offset: UNIQUE offset_certificate_id",
   "Failed to execute trade: UNIQUE transaction_hash"}

\* C19: after every step transaction_hash is unique among the Wrapper rows, among the
\* Trade rows and among the CarbonOffset rows, and offset_certificate_id is unique
\* among the CarbonOffset rows; a request stopped by a colliding identifier is
\* answered 500 and adds no row, and a retire that passed its checks while a row
\* with its certificate id exists is always answered 500.
C19_UniqueIdentifiers ==
  [][/\ UniqueColumn(wrappers', "transaction_hash")
     /\ UniqueColumn(trades', "transaction_hash")
     /\ UniqueColumn(offsets', "transaction_hash")
     /\ UniqueColumn(offsets', "offset_certificate_id")
     /\ resp'.detail \in UniqueViolationDetail
          => /\ resp'.status = 500
             /\ <<wrappers', offsets', trades'>> = <<wrappers, offsets, trades>>
     /\ (/\ resp'.op = "retire"
         /\ resp'.amount > 0
         /\ resp'.available >= resp'.amount
         /\ \E i \in DOMAIN offsets :
              offsets[i].offset_certificate_id = <<"GCS", resp'.user, resp'.amount>>)
          => /\ resp'.status = 500
             /\ <<wrappers', offsets', trades'>> = <<wrappers, offsets, trades>>]_vars

C19_Witness ==
  /\ resp.op = "wrap"
  /\ resp.status = 500
  /\ resp.detail = "Failed to wrap credits: UNIQUE transaction_hash"
  /\ Len(wrappers) > 0
  /\ Len(offsets) > 0

\* C20 (as claimed): a certificate lookup changes no state; for an id no CarbonOffset
\* row carries it is answered 404 'Certificate not found', and for the id a retire
\* issued it is answered 200 with that retire's row (user_address, tokens_retired,
\* carbon_credits_purchased).
C20_CertificateLookup ==
  [][(Idle /\ resp'.op = "certificate")
       => \A certificate_id \in CertificateIds :
            get_offset_certificate(certificate_id)
              => /\ <<wrappers', offsets', trades'>> = <<wrappers, offsets, trades>>
                 /\ IF \A i \in DOMAIN offsets : offsets[i].offset_certificate_id # certificate_id
                    THEN resp'.status = 404 /\ resp'.detail = "Certificate not found"
                    ELSE /\ resp'.status = 200
                         /\ \E i \in DOMAIN offsets :
                              /\ offsets[i].offset_certificate_id = certificate_id
                              /\ resp'.user = offsets[i].user_address
                              /\ resp'.amount = offsets[i].tokens_retired
                              /\ resp'.issued = offsets[i].carbon_credits_purchased]_vars

\* the parts of C20 that hold: the lookup changes no table, and an unknown id is
\* answered 404 'Certificate not found'
CertificateLookupUnknownId ==
  [][(resp'.op = "certificate")
       => /\ <<wrappers', offsets', trades'>> = <<wrappers, offsets, trades>>
          /\ resp'.status = 404 <=> resp'.detail = "Certificate not found"
          /\ offsets = <<>> => resp'.status = 404]_vars

\* the effect on the table of a walk over rows (row ids in query order) for amount:
\* the first k rows are deactivated with their wrapped_tokens left as they were; if
\* they do not cover the amount, row k + 1 held more than what remained, stays
\* active and loses exactly what remained; every other row is as it was
WalkShape(rows, amount) ==
  /\ Len(wrappers') = Len(wrappers)
  /\ \A i \in DOMAIN wrappers :
       (\A n \in DOMAIN rows : rows[n] # i) => wrappers'[i] = wrappers[i]
  /\ \E k \in 0..Len(rows) :
       LET taken == SumTokens(wrappers, SubSeq(rows, 1, k)) IN
       /\ k > 0 => taken <= amount
       /\ \A n \in 1..k :
            wrappers'[rows[n]] = [wrappers[rows[n]] EXCEPT !.is_active = FALSE]
       /\ IF taken < amount
          THEN /\ k < Len(rows)
               /\ wrappers[rows[k + 1]].wrapped_tokens > amount - taken
               /\ wrappers'[rows[k + 1]] =
                    [wrappers[rows[k + 1]] EXCEPT !.wrapped_tokens = @ - (amount - taken)]
               /\ wrappers'[rows[k + 1]].is_active
               /\ \A n \in (k + 2)..Len(rows) : wrappers'[rows[n]] = wrappers[rows[n]]
          ELSE \A n \in (k + 1)..Len(rows) : wrappers'[rows[n]] = wrappers[rows[n]]

\* C21: a committed unwrap or retire of A <= B walks the scoped active rows in the
\* order the query returned them: it deactivates a prefix of them, takes what then
\* remains from at most one row, the next one, which held more than that and stays
\* active, and leaves every later row untouched.
C21_GreedyWalk ==
  [][(Idle /\ Allocating1 /\ resp'.status = 200)
       => LET user == resp'.user
              provider == resp'.provider
              a == resp'.amount
          IN /\ resp'.op = "unwrap" =>
                  \A rows \in QueryOrders(unwrap_query(wrappers, user, provider)) :
                    unwrap_credits(user, provider, a, rows) => WalkShape(rows, a)
             /\ resp'.op = "retire" =>
                  \A rows \in QueryOrders(retire_query(wrappers, user)) :
                    retire_tokens_for_offset(user, a, rows) => WalkShape(rows, a)]_vars

\* two rows and an amount between the first row's balance and the sum: the first
\* row is deactivated and the second stays active with the rest
C21_Witness ==
  /\ Allocating
  /\ resp.status = 200
  /\ resp.amount < resp.available
  /\ resp.deactivated # {}
  /\ resp.partial # 0
  /\ wrappers[resp.partial].is_active
  /\ wrappers[resp.partial].wrapped_tokens = resp.available - resp.amount

\* C22: an unwrap for (user, provider) checks its amount against the user's active
\* rows of that provider only and changes no other row: it is refused with
\* 'Insufficient wrapped tokens' when that balance is below the amount, whatever the
\* user holds with other providers. A retire checks the user's active rows of all
\* providers: it is never refused as insufficient when their sum covers the amount.
C22_ProviderScope ==
  [][/\ (resp'.op = "unwrap" /\ resp'.detail # "not supported")
          => LET B == ScopedBalance(wrappers, resp'.user, resp'.provider) IN
             /\ resp'.available = B
             /\ resp'.amount > B
                  => /\ resp'.status = 400
                     /\ resp'.detail = "Insufficient wrapped tokens"
                     /\ wrappers' = wrappers
             /\ \A i \in DOMAIN wrappers :
                  (wrappers[i].user_address # resp'.user \/ wrappers[i].provider # resp'.provider)
                    => wrappers'[i] = wrappers[i]
     /\ (resp'.op = "retire" /\ resp'.detail # "Token amount must be greater than 0")
          => LET T == TotalBalance(wrappers, resp'.user) IN
             /\ resp'.available = T
             /\ resp'.detail = "Insufficient token balance" <=> resp'.amount > T
             /\ resp'.status = 200
                  => \A provider \in ProviderNames :
                       ScopedBalance(wrappers', resp'.user, provider)
                         <= ScopedBalance(wrappers, resp'.user, provider)]_vars

\* an unwrap refused although the user's rows of all providers together cover it
C22_Witness ==
  /\ resp.op = "unwrap"
  /\ resp.status = 400
  /\ resp.detail = "Insufficient wrapped tokens"
  /\ resp.available > 0
  /\ resp.amount > resp.available
  /\ resp.amount <= TotalBalance(wrappers, resp.user)

\* the rows an unwrap or retire queries, and its loop
AllocationQuery(ws, op, user, provider) ==
  IF op = "unwrap" THEN unwrap_query(ws, user, provider) ELSE retire_query(ws, user)

AllocationLoop(op, ws, amount, rows) ==
  IF op = "unwrap" THEN unwrap_loop(WalkStart(ws, amount), rows)
  ELSE retire_loop(WalkStart(ws, amount), rows)

\* the table a committed unwrap or retire started from, rebuilt from the table it
\* left and its response: the rows it deactivated active again, and what it took
\* from the partially consumed row given back
BeforeWalk(ws, r) ==
  LET whole == ScopedBalance([i \in DOMAIN ws |-> [ws[i] EXCEPT !.is_active = i \in r.deactivated]],
                             r.user, r.provider)
  IN [i \in DOMAIN ws |->
        IF i \in r.deactivated THEN [ws[i] EXCEPT !.is_active = TRUE]
        ELSE IF i = r.partial THEN [ws[i] EXCEPT !.wrapped_tokens = @ + (r.consumed - whole)]
        ELSE ws[i]]

\* C23: for the rows a committed unwrap or retire of A (0 < A <= B) queried, the walk
\* in any order the query could have returned them ends with remaining = 0, takes
\* exactly A and leaves the scoped balance B - A, the balance the request left; which
\* rows end up deactivated and which row is partially consumed depends on the order
\* (C23_Witness).
C23_OrderIndependentBalance ==
  [][(Idle /\ Allocating1 /\ resp'.status = 200 /\ resp'.amount > 0)
       => LET r == resp'
              B == ScopedBalance(wrappers, r.user, r.provider)
          IN /\ r.amount <= B
             /\ BeforeWalk(wrappers', r) = wrappers
             /\ ScopedBalance(wrappers', r.user, r.provider) = B - r.amount
             /\ \A rows \in QueryOrders(AllocationQuery(wrappers, r.op, r.user, r.provider)) :
                  LET walk == AllocationLoop(r.op, wrappers, r.amount, rows) IN
                  /\ walk.remaining = 0
                  /\ walk.consumed = r.amount
                  /\ ScopedBalance(walk.ws, r.user, r.provider) = B - r.amount]_vars

\* a committed request on whose rows another visiting order would have deactivated
\* other rows and partially consumed another row (or none), for the same balance
C23_Witness ==
  /\ Allocating
  /\ resp.status = 200
  /\ resp.amount > 0
  /\ LET before == BeforeWalk(wrappers, resp) IN
     \E rows \in QueryOrders(AllocationQuery(before, resp.op, resp.user, resp.provider)) :
       LET walk == AllocationLoop(resp.op, before, resp.amount, rows) IN
       /\ walk.deactivated # resp.deactivated
       /\ walk.partial # resp.partial
       /\ ScopedBalance(walk.ws, resp.user, resp.provider)
            = ScopedBalance(wrappers, resp.user, resp.provider)

\* sum of tokens_retired over the user's CarbonOffset rows
RECURSIVE RetiredUpTo(_, _, _)
RetiredUpTo(os, n, user) ==
  IF n = 0 THEN 0
  ELSE RetiredUpTo(os, n - 1, user)
       + (IF os[n].user_address = user THEN os[n].tokens_retired ELSE 0)

Minted(ws, user) == MintedUpTo(ws, Len(ws), user)
Retired(os, user) == RetiredUpTo(os, Len(os), user)

\* C24 (as claimed): for every user, tokens minted = active balance + amounts of the
\* user's successful unwraps + tokens retired. All four are 0 at the start, so the
\* equation holds after every sequence of requests exactly if every step changes
\* both sides by the same amount, the amount of a successful unwrap being the
\* token_amount it was asked for.
C24_TokenConservation ==
  [][\A user \in Users :
       Minted(wrappers', user) - Minted(wrappers, user)
         = (TotalBalance(wrappers', user) - TotalBalance(wrappers, user))
           + (IF resp'.op = "unwrap" /\ resp'.status = 200 /\ resp'.user = user
              THEN resp'.amount ELSE 0)
           + (Retired(offsets', user) - Retired(offsets, user))]_vars

\* the part of C24 that holds: the equation with what the unwrap loop took from the
\* rows in place of the amount asked for,
ConservationOfConsumed ==
  [][\A user \in Users :
       Minted(wrappers', user) - Minted(wrappers, user)
         = (TotalBalance(wrappers', user) - TotalBalance(wrappers, user))
           + (IF resp'.op = "unwrap" /\ resp'.status = 200 /\ resp'.user = user
              THEN resp'.consumed ELSE 0)
           + (Retired(offsets', user) - Retired(offsets, user))]_vars

\* and the tokens recorded as retired never exceed the tokens minted
RetiredWithinMinted ==
  \A user \in Users :
    Retired(offsets, user) + TotalBalance(wrappers, user) <= Minted(wrappers, user)

\* the table with the rows of every user but one replaced by other rows: the active
\* ones inactive, the inactive ones active, each with one token more
OthersReplaced(ws, user) ==
  [i \in DOMAIN ws |->
     IF ws[i].user_address = user THEN ws[i]
     ELSE [ws[i] EXCEPT !.is_active = ~@, !.wrapped_tokens = @ + 1]]

C26_DebitsOnlyWithRestore ==
  (resp.op = "unwrap" /\ resp.status = 200 /\ ~resp.restored)
    => /\ resp.consumed = 0
       /\ resp.deactivated = {}
       /\ resp.partial = 0

\* an unwrap answered 200 for a provider active in the table and unknown to the
\* restorer, the user holding active rows of other providers
C26_Witness ==
  /\ resp.op = "unwrap"
  /\ resp.status = 200
  /\ ~resp.restored
  /\ resp.provider \in DOMAIN AIProvider \ ServiceProviders
  /\ TotalBalance(wrappers, resp.user) > 0

\* C27 (as claimed): a wrap for a provider present and active in the Provider table,
\* with credit_amount > 0 and a proof of at least 10 characters, is never answered
\* 400 'Credit verification failed' (the verifier accepts every provider the table
\* marks active): unless a collaborator raises, it is answered 200.
C27_ActiveProviderWraps ==
  [][(Idle /\ resp'.op = "wrap")
       => \A user \in Users, provider \in {n \in ProviderNames : ~Unsupported(n)} :
            \A c \in {x \in CreditAmounts : x > 0}, pl \in {x \in ProofLengths : x >= 10} :
              wrap_credits(user, provider, c, pl)
                => /\ resp'.detail # "Credit verification failed"
                   /\ resp'.status \in {200, 500}]_vars

\* the part of C27 that holds: such a wrap for a provider that is active in the table
\* and also known to AIProviderService is never refused by the verifier
WrapAcceptedForServiceProviders ==
  [][(Idle /\ resp'.op = "wrap")
       => \A user \in Users, provider \in {n \in ServiceProviders : ~Unsupported(n)} :
            \A c \in {x \in CreditAmounts : x > 0}, pl \in {x \in ProofLengths : x >= 10} :
              wrap_credits(user, provider, c, pl)
                => /\ resp'.detail # "Credit verification failed"
                   /\ resp'.status \in {200, 500}]_vars

\* C28 (as claimed): a retire of an amount the user has already retired that day,
\* with sufficient balance and no collaborator failure, is answered 200, debits the
\* wrappers and adds a second CarbonOffset row.
C28_SameAmountTwice ==
  [][(/\ resp'.op = "retire"
      /\ resp'.amount > 0
      /\ resp'.available >= resp'.amount
      /\ \E i \in DOMAIN offsets :
           /\ offsets[i].user_address = resp'.user
           /\ offsets[i].tokens_retired = resp'.amount
      /\ resp'.detail \notin {"Failed to retire tokens and purchase offset: tx",
                              "Failed to retire tokens and purchase offset: commit",
                              "Failed to retire tokens and purchase offset: UNIQUE transaction_hash"})
       => /\ resp'.status = 200
          /\ Len(offsets') = Len(offsets) + 1
          /\ TotalBalance(wrappers', resp'.user)
               = TotalBalance(wrappers, resp'.user) - resp'.amount]_vars

\* what the code does instead: such a retire is always answered 500 on the
\* certificate id and rolled back (also part of C19_UniqueIdentifiers)
SameAmountTwiceRolledBack ==
  [][(/\ resp'.op = "retire"
      /\ resp'.amount > 0
      /\ resp'.available >= resp'.amount
      /\ \E i \in DOMAIN offsets :
           /\ offsets[i].user_address = resp'.user
           /\ offsets[i].tokens_retired = resp'.amount
      /\ resp'.detail # "Failed to retire tokens and purchase offset: tx")
       => /\ resp'.status = 500
          /\ resp'.detail = "Failed to retire tokens and purchase offset: UNIQUE offset_certificate_id"
          /\ <<wrappers', offsets', trades'>> = <<wrappers, offsets, trades>>]_vars

====
